---- MODULE Spec2Model ----
(***************************************************************************)
(* Model of the ChessAI data pipeline: the board/move encoding of          *)
(* utils/board_utils.py and the indexed streaming dataset of               *)
(* data/chess_dataset.py.                                                  *)
(*                                                                         *)
(* Conventions.                                                            *)
(*  - Squares are 0..63 (a1 = 0 ... h8 = 63), piece types 1..6 (pawn,      *)
(*    knight, bishop, rook, queen, king), colour TRUE = White, as in the   *)
(*    chess library the code uses.                                         *)
(*  - Tensor cells are float32 values that are multiples of 0.25; a cell   *)
(*    is modelled by its number of quarters (1.0 is 4, 0.0 is 0).          *)
(*  - Outcomes are the floats +1.0, -1.0, 0.0, modelled as 1, -1, 0.       *)
(*  - An archive is a sequence of game records; a file position counts     *)
(*    the lines before it.  A record is its header lines, one movetext     *)
(*    line and the empty line that ends the game.                          *)
(***************************************************************************)
EXTENDS Integers, Sequences, FiniteSets, Bags, TLC

\* Python's None where the value is otherwise a piece: no piece on the square
NoPiece == [piece_type |-> 0, color |-> FALSE]

\* An optional value (None or a value) is a sequence of length 0 or 1.
None == << >>
Some(v) == <<v>>

----------------------------------------------------------------------------
(* Bounds of the model *)

\* largest number of game records over all archives of one file system
MaxGames == 3
\* largest position cap handed to the indexer
MaxCap == 3
\* largest number of data-loader workers
MaxWorkers == 4
\* largest number of records of the archives the workers share
MaxIndex == 5
\* largest number of records of the archive whose results are indexed
MaxResults == 3
\* how far below 0 and above 4095 the indices given to index_to_move go
MaxOutside == 70
\* largest number of calls of encode_board over the replayed games
MaxCalls == 3
\* largest number of moves on the board of the window
MaxGuiPly == 3
\* largest number of moves on the redo stack of the window
MaxRedo == 2
\* the policy of a network rises along the move indices by 0..MaxSlope a step
MaxSlope == 2
\* the probabilities of a policy are 0..MaxLevel, with one index above them
MaxLevel == 2
\* largest number of moves played on the board that is encoded
MaxPly == 2

----------------------------------------------------------------------------
(* The chess library as the code uses it: boards and moves *)

Squares == 0..63

Piece(t, c) == [piece_type |-> t, color |-> c]

\* chess.Move(from_square, to_square): promotion 0 is no promotion
Move(f, t) == [from_square |-> f, to_square |-> t, promotion |-> 0]

\* chess.Board(): the standard starting position
BackRank == <<4, 2, 3, 5, 6, 3, 2, 4>>

StartPieces ==
    [s \in Squares |->
        IF s \in 0..7 THEN Piece(BackRank[s + 1], TRUE)
        ELSE IF s \in 8..15 THEN Piece(1, TRUE)
        ELSE IF s \in 48..55 THEN Piece(1, FALSE)
        ELSE IF s \in 56..63 THEN Piece(BackRank[s - 55], FALSE)
        ELSE NoPiece]

StartBoard == [pieces |-> StartPieces, turn |-> TRUE, castling |-> {0, 7, 56, 63}]

\* board.piece_at(square)
piece_at(board, s) == board.pieces[s]

\* board.push(move): the piece leaves from_square and lands on to_square
\* (as the promotion piece if there is one), a king that moves two files
\* takes its rook along, the rights of a moved or captured rook and of a
\* moved king are lost, and the turn passes.  En passant is not modelled.
push(board, m) ==
    LET p == board.pieces[m.from_square]
        isKing == p.piece_type = 6
        landed == IF m.promotion # 0 /\ p # NoPiece
                  THEN Piece(m.promotion, p.color) ELSE p
        castleK == isKing /\ m.to_square = m.from_square + 2
        castleQ == isKing /\ m.to_square = m.from_square - 2
        moved == [s \in Squares |->
                    IF s = m.to_square THEN landed
                    ELSE IF s = m.from_square THEN NoPiece
                    ELSE IF castleK /\ s = m.from_square + 1 THEN board.pieces[m.from_square + 3]
                    ELSE IF castleK /\ s = m.from_square + 3 THEN NoPiece
                    ELSE IF castleQ /\ s = m.from_square - 1 THEN board.pieces[m.from_square - 4]
                    ELSE IF castleQ /\ s = m.from_square - 4 THEN NoPiece
                    ELSE board.pieces[s]]
        ownRank == IF board.turn THEN 0..7 ELSE 56..63
        rights == (board.castling \ {m.from_square, m.to_square})
                    \ (IF isKing THEN ownRank ELSE {})
    IN [pieces |-> moved, turn |-> ~board.turn, castling |-> rights]

\* board.has_kingside_castling_rights(color) / has_queenside_castling_rights:
\* the right is recorded, the rook stands on its corner and the king on e1/e8
HasRight(board, corner, kingSq, c) ==
    /\ corner \in board.castling
    /\ board.pieces[corner] = Piece(4, c)
    /\ board.pieces[kingSq] = Piece(6, c)

has_kingside_castling_rights(board, c) ==
    IF c THEN HasRight(board, 7, 4, TRUE) ELSE HasRight(board, 63, 60, FALSE)

has_queenside_castling_rights(board, c) ==
    IF c THEN HasRight(board, 0, 4, TRUE) ELSE HasRight(board, 56, 60, FALSE)

\* file and rank of a square, and the square of a file and a rank
File(s) == s % 8
Rank(s) == s \div 8
Sq(f, r) == r * 8 + f
OnBoard(f, r) == f \in 0..7 /\ r \in 0..7

KnightSteps == {<<1, 2>>, <<2, 1>>, <<2, -1>>, <<1, -2>>,
                <<-1, -2>>, <<-2, -1>>, <<-2, 1>>, <<-1, 2>>}
RookSteps == {<<1, 0>>, <<-1, 0>>, <<0, 1>>, <<0, -1>>}
BishopSteps == {<<1, 1>>, <<1, -1>>, <<-1, 1>>, <<-1, -1>>}

\* the squares a piece on s reaches along the steps, up to far steps away:
\* the squares before the target are empty and the target holds no own piece
Reach(board, s, steps, far) ==
    UNION { { Sq(File(s) + k * d[1], Rank(s) + k * d[2]) :
                k \in { n \in 1..far :
                    /\ OnBoard(File(s) + n * d[1], Rank(s) + n * d[2])
                    /\ \A j \in 1..(n - 1) :
                          board.pieces[Sq(File(s) + j * d[1], Rank(s) + j * d[2])] = NoPiece
                    /\ LET target == board.pieces[Sq(File(s) + n * d[1], Rank(s) + n * d[2])]
                       IN target = NoPiece \/ target.color # board.turn } }
            : d \in steps }

\* the squares a pawn on s reaches: one step ahead, two from its home rank,
\* one step diagonally onto an enemy piece
PawnReach(board, s) ==
    LET ahead == IF board.turn THEN 1 ELSE -1
        home == IF board.turn THEN 1 ELSE 6
        f == File(s)
        r == Rank(s)
        free(ff, rr) == OnBoard(ff, rr) /\ board.pieces[Sq(ff, rr)] = NoPiece
        enemy(ff, rr) == /\ OnBoard(ff, rr)
                         /\ board.pieces[Sq(ff, rr)] # NoPiece
                         /\ board.pieces[Sq(ff, rr)].color # board.turn
    IN (IF free(f, r + ahead) THEN {Sq(f, r + ahead)} ELSE {})
       \cup (IF r = home /\ free(f, r + ahead) /\ free(f, r + 2 * ahead)
             THEN {Sq(f, r + 2 * ahead)} ELSE {})
       \cup { Sq(f + df, r + ahead) : df \in { x \in {-1, 1} : enemy(f + x, r + ahead) } }

\* the squares a king reaches by castling: the right is held and the squares
\* between king and rook are empty
CastleReach(board, s) ==
    (IF /\ has_kingside_castling_rights(board, board.turn)
        /\ \A x \in {s + 1, s + 2} : board.pieces[x] = NoPiece
     THEN {s + 2} ELSE {})
    \cup (IF /\ has_queenside_castling_rights(board, board.turn)
             /\ \A x \in {s - 1, s - 2, s - 3} : board.pieces[x] = NoPiece
          THEN {s - 2} ELSE {})

\* the squares the piece on s reaches
Targets(board, s) ==
    LET t == board.pieces[s].piece_type
    IN IF t = 1 THEN PawnReach(board, s)
       ELSE IF t = 2 THEN Reach(board, s, KnightSteps, 1)
       ELSE IF t = 3 THEN Reach(board, s, BishopSteps, 7)
       ELSE IF t = 4 THEN Reach(board, s, RookSteps, 7)
       ELSE IF t = 5 THEN Reach(board, s, RookSteps \cup BishopSteps, 7)
       ELSE Reach(board, s, RookSteps \cup BishopSteps, 1) \cup CastleReach(board, s)

\* the moves of the side to move, a pawn that reaches the last rank promoting;
\* whether the own king is left attacked is not looked at, and there is no
\* en passant
pseudo_legal_moves(board) ==
    UNION { UNION { IF board.pieces[s].piece_type = 1 /\ Rank(t) \in {0, 7}
                    THEN { [from_square |-> s, to_square |-> t, promotion |-> q]
                               : q \in {2, 3, 4, 5} }
                    ELSE { Move(s, t) }
                    : t \in Targets(board, s) }
            : s \in { x \in Squares : /\ board.pieces[x] # NoPiece
                                      /\ board.pieces[x].color = board.turn } }

\* the square of the king of a colour
KingSquare(board, c) == CHOOSE s \in Squares : board.pieces[s] = Piece(6, c)

\* board.is_attacked_by(color, square): a pawn of the colour stands diagonally
\* behind the square, or another piece of the colour reaches it
AttackedBy(board, c, sq) ==
    LET seen == [board EXCEPT !.turn = c]
    IN \E s \in Squares :
        LET p == board.pieces[s]
        IN /\ p # NoPiece
           /\ p.color = c
           /\ IF p.piece_type = 1
              THEN /\ Rank(sq) = Rank(s) + (IF c THEN 1 ELSE -1)
                   /\ File(sq) \in {File(s) - 1, File(s) + 1}
              ELSE IF p.piece_type = 2 THEN sq \in Reach(seen, s, KnightSteps, 1)
              ELSE IF p.piece_type = 3 THEN sq \in Reach(seen, s, BishopSteps, 7)
              ELSE IF p.piece_type = 4 THEN sq \in Reach(seen, s, RookSteps, 7)
              ELSE IF p.piece_type = 5 THEN sq \in Reach(seen, s, RookSteps \cup BishopSteps, 7)
              ELSE sq \in Reach(seen, s, RookSteps \cup BishopSteps, 1)

\* board.is_check(): the king of the side to move is attacked
is_check(board) == AttackedBy(board, ~board.turn, KingSquare(board, board.turn))

\* the move is a castling move of the board
IsCastling(board, m) ==
    /\ board.pieces[m.from_square].piece_type = 6
    /\ m.to_square \in {m.from_square + 2, m.from_square - 2}

\* the move of the side to move does not leave its king attacked; a king does
\* not castle out of or through an attack
IsLegal(board, m) ==
    /\ LET after == push(board, m)
       IN ~AttackedBy(after, after.turn, KingSquare(after, board.turn))
    /\ IsCastling(board, m) =>
        /\ ~is_check(board)
        /\ ~AttackedBy(board, ~board.turn, (m.from_square + m.to_square) \div 2)

\* board.legal_moves as a set
LegalMoves(board) == { m \in pseudo_legal_moves(board) : IsLegal(board, m) }

\* board.is_game_over(): the side to move has no legal move (mate or
\* stalemate); the draws by material, repetition and move count lie beyond
\* the games of the model
is_game_over(board) == ~\E m \in pseudo_legal_moves(board) : IsLegal(board, m)

----------------------------------------------------------------------------
(* utils/board_utils.py *)

B2N(b) == IF b THEN 1 ELSE 0

\* piece_to_channel: pawn 0, knight 1, bishop 2, rook 3, queen 4, king 5
piece_to_channel(t) == t - 1

\* Mutant: Black pieces are written to the planes of the White pieces
channelOfWhite(p) == piece_to_channel(p.piece_type)

\* the plane a piece is written to
channel(p) == IF p.color THEN piece_to_channel(p.piece_type)
              ELSE piece_to_channel(p.piece_type) + 6

\* Mutant: plane 12 is filled when Black is to move
side_to_moveOfBlack(board) == IF board.turn THEN 0 ELSE 4

\* what plane 12 is filled with: 1.0 if board.turn == chess.WHITE, else the 0.0
\* of np.zeros
side_to_move(board) == IF board.turn THEN 4 ELSE 0

\* Mutant: only the castling rights of White are counted
castling_rightsOfWhite(board) ==
    B2N(has_kingside_castling_rights(board, TRUE))
    + B2N(has_queenside_castling_rights(board, TRUE))

\* number of castling rights still available
castling_rights(board) ==
    B2N(has_kingside_castling_rights(board, TRUE))
    + B2N(has_queenside_castling_rights(board, TRUE))
    + B2N(has_kingside_castling_rights(board, FALSE))
    + B2N(has_queenside_castling_rights(board, FALSE))

\* Mutant: the row is the rank, not flipped
row_ofUnflipped(square) == square \div 8

\* row = 7 - (square // 8)
row_of(square) == 7 - (square \div 8)

\* col = square % 8
col_of(square) == square % 8

\* the cells the loop over chess.SQUARES sets to 1.0: one per occupied square
piece_cells(board) ==
    { <<channel(piece_at(board, square)), row_of(square), col_of(square)>> :
        square \in { sq \in Squares : piece_at(board, sq) # NoPiece } }

\* encode_board(board): tensor[14][8][8], cells in quarters; the tensor starts
\* as zeros, the loop writes the piece cells, then planes 12 and 13 are filled
encode_board(board) ==
    LET written == piece_cells(board)
    IN [ch \in 0..13 |-> [row \in 0..7 |-> [col \in 0..7 |->
        IF ch <= 11
        THEN (IF <<ch, row, col>> \in written THEN 4 ELSE 0)
        ELSE IF ch = 12
        THEN side_to_move(board)
        ELSE castling_rights(board)]]]

\* Mutant: the from square is scaled by the length of a rank
move_to_indexBy8(m) == m.from_square * 8 + m.to_square

\* Mutant: the squares are taken in the other order
move_to_indexSwapped(m) == m.to_square * 64 + m.from_square

\* Mutant: the promotion piece takes part in the index
move_to_indexWithPromotion(m) == (m.from_square * 64 + m.to_square) + 4096 * m.promotion

\* move_to_index(move)
move_to_index(m) == m.from_square * 64 + m.to_square

\* Mutant: quotient and remainder are taken for the wrong squares
index_to_moveSwapped(index) == Move(index % 64, index \div 64)

\* index_to_move(index): floor division and modulo as in Python; chess.Move
\* stores the two numbers it is given and checks nothing
index_to_move(index) == Move(index \div 64, index % 64)


----------------------------------------------------------------------------
(* PGN archives and the parser, as data/chess_dataset.py uses them *)

e2e4 == Move(12, 28)
e7e5 == Move(52, 36)
g1f3 == Move(6, 21)
d2d4 == Move(11, 27)

\* A game record: its header tags and the moves of its main line.
GameRecord(h, ms) == [headers |-> h, moves |-> ms]

\* The records archives are built from: the game "1. e4 e5 2. Nf3" won by
\* White, a one-move game won by Black, a drawn game whose header block has
\* no Event tag, and a game without moves and without a Result tag.
GamePool ==
    { GameRecord([t \in {"Event", "Result"} |-> IF t = "Event" THEN "?" ELSE "1-0"],
                 <<e2e4, e7e5, g1f3>>),
      GameRecord([t \in {"Event", "Result"} |-> IF t = "Event" THEN "?" ELSE "0-1"],
                 <<d2d4>>),
      GameRecord([t \in {"Result"} |-> "1/2-1/2"], <<g1f3, e7e5>>),
      GameRecord([t \in {"Event"} |-> "?"], << >>) }

RECURSIVE SeqsUpTo(_, _)
SeqsUpTo(S, n) ==
    IF n = 0 THEN { << >> }
    ELSE LET shorter == SeqsUpTo(S, n - 1)
         IN shorter \cup { Append(q, x) : q \in { r \in shorter : Len(r) = n - 1 }, x \in S }

Archives == SeqsUpTo(GamePool, MaxGames)

Paths == {"a.pgn", "b.pgn"}

PathLists == { << >>, <<"a.pgn">>, <<"a.pgn", "b.pgn">> }

\* headers.get(tag, default)
headers_get(h, tag, default) == IF tag \in DOMAIN h THEN h[tag] ELSE default

\* lines of one record: the header lines, the movetext line, the empty line
RecordLines(g) == Cardinality(DOMAIN g.headers) + 2

RECURSIVE RecordStart(_, _)
\* file position at which the k-th record of an archive starts
RecordStart(archive, k) ==
    IF k = 1 THEN 0 ELSE RecordStart(archive, k - 1) + RecordLines(archive[k - 1])

\* file position of the end of the archive
FileEnd(archive) == RecordStart(archive, Len(archive) + 1)

\* chess.pgn.read_game(pgn) with the handle at position pos: the number of the
\* record that is read, 0 (the parser returns None) at the end of the file
RecordAt(archive, pos) ==
    IF \E k \in 1..Len(archive) : RecordStart(archive, k) = pos
    THEN CHOOSE k \in 1..Len(archive) : RecordStart(archive, k) = pos
    ELSE 0

read_game(archive, pos) ==
    IF RecordAt(archive, pos) = 0 THEN None ELSE Some(archive[RecordAt(archive, pos)])

\* pgn.tell() once read_game has returned: the parser has consumed the record
\* up to and including the empty line that ends it
tell_after_read(archive, pos) ==
    IF RecordAt(archive, pos) = 0 THEN FileEnd(archive)
    ELSE pos + RecordLines(archive[RecordAt(archive, pos)])

\* sum(1 for _ in open(pgn_path) if _.startswith('[Event '))
RECURSIVE CountEventLines(_)
CountEventLines(archive) ==
    IF archive = << >> THEN 0
    ELSE B2N("Event" \in DOMAIN Head(archive).headers) + CountEventLines(Tail(archive))

\* Mutant: every result but a win of White counts as a win of Black
OutcomeNoDraw(result) == IF result = "1-0" THEN 1 ELSE -1

\* value = 1.0 if result == "1-0" else (-1.0 if result == "0-1" else 0.0)
Outcome(result) == IF result = "1-0" THEN 1 ELSE IF result = "0-1" THEN -1 ELSE 0

\* Python truth value of max_positions: None and 0 are false
Truthy(mp) == mp # None /\ mp[1] # 0


----------------------------------------------------------------------------
(* State *)

VARIABLES
    files,            \* the file system: path |-> archive, for the paths that exist
    pgn_files,        \* self.pgn_files
    max_positions,    \* self.max_positions (optional)
    num_workers,      \* worker processes of the data loader (0: none)
    total_positions,  \* self.total_positions
    index_file,       \* contents of self.index_file (optional: None until dumped)
    warned,           \* paths reported by the "PGN file not found" warning
    pc,               \* position of _create_index
    fi,               \* _create_index: number of the path the outer loop is at
    pgn,              \* _create_index: position of the open handle
    left,             \* _create_index: iterations of range(game_count) still to run
    indices,          \* _create_index: the list being built
    current_pos,      \* _create_index: running position count
    file_positions,   \* _create_index: positions of the archive being scanned
    entry_game,       \* history: for each index entry, the number (in its archive)
                      \* of the record read_game returned when the entry was made
    it,               \* the iterator of the consumer without worker_info
    passes,           \* history: what each earlier traversal of that consumer yielded
    wk,               \* the iterators of the workers, by worker id
    corrupt,          \* the damaged records of the archives: <<path, number, kind>>
    upc,              \* board_utils: which call of the move indexer has been made
    move_in,          \* argument of move_to_index (optional)
    index_out,        \* what move_to_index returned for move_in (optional)
    move_back,        \* what index_to_move returned for index_out (optional)
    index_in,         \* argument of index_to_move (optional)
    move_out,         \* what index_to_move returned for index_in (optional)
    index_back,       \* what move_to_index returned for move_out (optional)
    lookup,           \* create_move_lookup: the dictionary moves being built
    lookup_from,      \* create_move_lookup: from_square of the outer loop
    position,         \* a board reached by pushing moves on the starting board
    ply,              \* number of moves pushed on position
    encoded,          \* what encode_board returned for position (optional)
    initial,          \* game.board(): the board the replayed game starts from
    games,            \* number of games replayed before this one
    calls,            \* history: the calls of encode_board made so far, each with
                      \* the game and ply it was made at, its board and its result
    net,              \* ChessEngine.model: the weights that fix the policy output
    eboard,           \* the board of evaluate_position and of play_game
    epc,              \* position of evaluate_position / play_game
    best_move,        \* best_move of evaluate_position (optional)
    move_probs,       \* move_probs of evaluate_position: (move, prob) entries
    pushes,           \* history: the moves play_game pushed, each with its board
    gboard,           \* ChessGUI.board_widget.board: the position
    gpast,            \* the move stack of that board: the positions before its moves
    move_stack,       \* ChessGUI.move_stack
    redo_stack,       \* ChessGUI.redo_stack
    playing_as_white, \* ChessGUI.playing_as_white
    is_self_playing,  \* ChessGUI.is_self_playing; the self-play timer runs
    undo_enabled,     \* undo_btn.isEnabled()
    redo_enabled,     \* redo_btn.isEnabled()
    gpc,              \* the window: "idle" (none), "ready" or "aborted"
    handled,          \* history: the slot that ran last
    graised,          \* history: that slot raised
    before_undo       \* history: board and stacks before the undo that ran last
                      \* (optional: None once another slot than redo has run)

vars == <<files, pgn_files, max_positions, num_workers, total_positions, index_file,
          warned, pc, fi, pgn, left, indices, current_pos, file_positions,
          entry_game, it, passes, wk, corrupt, upc, move_in, index_out, move_back,
          index_in, move_out, index_back, lookup, lookup_from, position, ply, encoded,
          initial, games, calls, net, eboard, epc, best_move, move_probs, pushes,
          gboard, gpast, move_stack, redo_stack, playing_as_white, is_self_playing,
          undo_enabled, redo_enabled, gpc, handled, graised, before_undo>>

inputs == <<files, pgn_files, max_positions, num_workers, corrupt>>
indexer == <<total_positions, index_file, warned, pc, fi, pgn, left, indices,
             current_pos, file_positions, entry_game>>
consumers == <<it, passes, wk>>
indexing == <<upc, move_in, index_out, move_back, index_in, move_out, index_back,
              lookup, lookup_from>>
encoding == <<position, ply, encoded, initial, games, calls>>
engine == <<net, eboard, epc, best_move, move_probs, pushes>>
gui == <<gboard, gpast, move_stack, redo_stack, playing_as_white, is_self_playing,
         undo_enabled, redo_enabled, gpc, handled, graised, before_undo>>
frontends == <<engine, gui>>
dataset == <<inputs, indexer, consumers>>

\* a generator object of __iter__ that has not run yet
NewIterator ==
    [pc |-> "created", indices |-> << >>, base |-> 0, e |-> 0,
     game |-> None, board |-> None, k |-> 0, out |-> << >>]

RECURSIVE TotalGames(_, _)
TotalGames(fs, ps) ==
    IF ps = {} THEN 0
    ELSE LET p == CHOOSE q \in ps : TRUE
         IN Len(fs[p]) + TotalGames(fs, ps \ {p})

Range(q) == { q[i] : i \in DOMAIN q }

\* The file systems of the model: only listed paths hold an archive (a listed
\* path may be missing), with at most MaxGames records in all.
FileSystems(list) ==
    UNION { { fs \in [present -> Archives] : TotalGames(fs, present) <= MaxGames }
            : present \in SUBSET Range(list) }

Caps == { None } \cup { Some(n) : n \in 0..MaxCap }

\* ChessDataset.__init__ up to the call of _create_index
Construct(list, fs, cap, nw) ==
    /\ pgn_files = list
    /\ files = fs
    /\ max_positions = cap
    /\ num_workers = nw
    /\ total_positions = 0
    /\ index_file = None
    /\ warned = {}
    /\ pc = "files"
    /\ fi = 1
    /\ pgn = 0
    /\ left = 0
    /\ indices = << >>
    /\ current_pos = 0
    /\ file_positions = 0
    /\ entry_game = << >>
    /\ it = NewIterator
    /\ passes = << >>
    /\ wk = [w \in 0..(nw - 1) |-> NewIterator]

\* no archive has a damaged record
Intact == corrupt = {}

\* no call of the move indexer has been made
IndexingIdle ==
    /\ upc = "idle"
    /\ move_in = None
    /\ index_out = None
    /\ move_back = None
    /\ index_in = None
    /\ move_out = None
    /\ index_back = None
    /\ lookup = << >>
    /\ lookup_from = 0

\* a game that starts from the board start, nothing encoded yet
EncodingFrom(start) ==
    /\ initial = start
    /\ position = start
    /\ ply = 0
    /\ encoded = None
    /\ games = 0
    /\ calls = << >>

\* the starting board, not encoded yet
EncodingIdle == EncodingFrom(StartBoard)

\* no engine is loaded
EngineIdle ==
    /\ net = None
    /\ eboard = StartBoard
    /\ epc = "idle"
    /\ best_move = None
    /\ move_probs = << >>
    /\ pushes = << >>

\* the fields of a window that has just been constructed
GuiConstructed ==
    /\ gboard = StartBoard
    /\ gpast = << >>
    /\ move_stack = << >>
    /\ redo_stack = << >>
    /\ playing_as_white = TRUE
    /\ is_self_playing = FALSE
    /\ undo_enabled = FALSE
    /\ redo_enabled = FALSE
    /\ handled = "none"
    /\ graised = FALSE
    /\ before_undo = None

\* no window is open
GuiIdle == GuiConstructed /\ gpc = "idle"

FrontendsIdle == EngineIdle /\ GuiIdle

\* a dataset over no archive, for the runs that are about board_utils alone
NoDataset == Construct(<< >>, [p \in {} |-> << >>], None, 0) /\ Intact

----------------------------------------------------------------------------
(* ChessDataset._create_index *)

\* Mutant: the cap is reached only when it is exceeded
CapReachedStrict(mp, pos) == Truthy(mp) /\ pos > mp[1]

\* if self.max_positions and current_pos >= self.max_positions
CapReached(mp, pos) == Truthy(mp) /\ pos >= mp[1]

\* game_start = pgn.tell(), taken once read_game has returned the game
game_start(archive, before) == tell_after_read(archive, before)

\* move_count = sum(1 for _ in game.mainline_moves())
move_count(game) == Len(game.moves)

\* the tuple appended to indices
IndexEntry(path, archive, before, game) ==
    <<path, game_start(archive, before), move_count(game),
      Outcome(headers_get(game.headers, "Result", "*"))>>

\* Reading the lines of an archive (open(pgn_path) in text mode, strict
\* decoding) raises UnicodeDecodeError if a record holds bytes that do not
\* decode; nothing in _create_index or __init__ catches it.
Undecodable(path) == \E k \in 1..Len(files[path]) : <<path, k, "undecodable">> \in corrupt

\* Mutant: a missing path ends the loop over the paths (break for continue)
IndexFileMissingFatal ==
    /\ pc = "files"
    /\ IF fi > Len(pgn_files)
       THEN /\ pc' = "save"
            /\ UNCHANGED <<fi, warned, pgn, left, file_positions>>
       ELSE IF pgn_files[fi] \notin DOMAIN files
       THEN /\ warned' = warned \cup {pgn_files[fi]}
            /\ pc' = "save"
            /\ UNCHANGED <<fi, pgn, left, file_positions>>
       ELSE IF Undecodable(pgn_files[fi])
       THEN /\ pc' = "raised"
            /\ UNCHANGED <<fi, warned, pgn, left, file_positions>>
       ELSE /\ file_positions' = 0
            /\ left' = CountEventLines(files[pgn_files[fi]])
            /\ pgn' = 0
            /\ pc' = "games"
            /\ UNCHANGED <<fi, warned>>
    /\ UNCHANGED <<total_positions, index_file, indices, current_pos, entry_game>>
    /\ UNCHANGED <<inputs, consumers, indexing, encoding, frontends>>

\* for pgn_path in self.pgn_files: a missing path is warned about and skipped,
\* an existing one is counted (which reads all its lines) and opened; after
\* the last path the index is saved
IndexFile ==
    /\ pc = "files"
    /\ IF fi > Len(pgn_files)
       THEN /\ pc' = "save"
            /\ UNCHANGED <<fi, warned, pgn, left, file_positions>>
       ELSE IF pgn_files[fi] \notin DOMAIN files
       THEN /\ warned' = warned \cup {pgn_files[fi]}
            /\ fi' = fi + 1
            /\ UNCHANGED <<pc, pgn, left, file_positions>>
       ELSE IF Undecodable(pgn_files[fi])
       THEN /\ pc' = "raised"
            /\ UNCHANGED <<fi, warned, pgn, left, file_positions>>
       ELSE /\ file_positions' = 0
            /\ left' = CountEventLines(files[pgn_files[fi]])
            /\ pgn' = 0
            /\ pc' = "games"
            /\ UNCHANGED <<fi, warned>>
    /\ UNCHANGED <<total_positions, index_file, indices, current_pos, entry_game>>
    /\ UNCHANGED <<inputs, consumers, indexing, encoding, frontends>>

\* one iteration of the loop over range(game_count)
IndexGame ==
    /\ pc = "games"
    /\ left > 0
    /\ LET path == pgn_files[fi]
           archive == files[path]
           game == read_game(archive, pgn)
       IN IF game = None
          THEN /\ pc' = "endfile"
               /\ pgn' = tell_after_read(archive, pgn)
               /\ UNCHANGED <<left, indices, current_pos, file_positions, entry_game>>
          ELSE /\ indices' = Append(indices, IndexEntry(path, archive, pgn, game[1]))
               /\ entry_game' = Append(entry_game, RecordAt(archive, pgn))
               /\ file_positions' = file_positions + move_count(game[1])
               /\ current_pos' = current_pos + move_count(game[1])
               /\ pgn' = tell_after_read(archive, pgn)
               /\ left' = left - 1
               /\ pc' = IF CapReached(max_positions, current_pos + move_count(game[1]))
                        THEN "endfile" ELSE "games"
    /\ UNCHANGED <<total_positions, index_file, warned, fi>>
    /\ UNCHANGED <<inputs, consumers, indexing, encoding, frontends>>

\* the loop over range(game_count) is exhausted
IndexLoopEnd ==
    /\ pc = "games"
    /\ left = 0
    /\ pc' = "endfile"
    /\ UNCHANGED <<total_positions, index_file, warned, fi, pgn, left, indices,
                   current_pos, file_positions, entry_game>>
    /\ UNCHANGED <<inputs, consumers, indexing, encoding, frontends>>

\* Mutant: the count of the archive is stored for the running total
IndexFileEndStoresFilePositions ==
    /\ pc = "endfile"
    /\ total_positions' = file_positions
    /\ IF CapReached(max_positions, current_pos)
       THEN pc' = "save" /\ fi' = fi
       ELSE pc' = "files" /\ fi' = fi + 1
    /\ UNCHANGED <<index_file, warned, pgn, left, indices, current_pos,
                   file_positions, entry_game>>
    /\ UNCHANGED <<inputs, consumers, indexing, encoding, frontends>>

\* after the with block: the total is stored, and the cap ends the outer loop
IndexFileEnd ==
    /\ pc = "endfile"
    /\ total_positions' = current_pos
    /\ IF CapReached(max_positions, current_pos)
       THEN pc' = "save" /\ fi' = fi
       ELSE pc' = "files" /\ fi' = fi + 1
    /\ UNCHANGED <<index_file, warned, pgn, left, indices, current_pos,
                   file_positions, entry_game>>
    /\ UNCHANGED <<inputs, consumers, indexing, encoding, frontends>>

\* pickle.dump(indices, f)
SaveIndex ==
    /\ pc = "save"
    /\ index_file' = Some(indices)
    /\ pc' = "ready"
    /\ UNCHANGED <<total_positions, warned, fi, pgn, left, indices, current_pos,
                   file_positions, entry_game>>
    /\ UNCHANGED <<inputs, consumers, indexing, encoding, frontends>>

CreateIndex == IndexFile \/ IndexGame \/ IndexLoopEnd \/ IndexFileEnd \/ SaveIndex

\* ChessDataset.__len__
dataset_len == total_positions


----------------------------------------------------------------------------
(* ChessDataset.__iter__ *)

Min(a, b) == IF a <= b THEN a ELSE b

\* int(np.ceil(a / b)) for a >= 0, b >= 1
Ceil(a, b) == (a + b - 1) \div b

\* Python's q[start:end] for 0 <= start, 0 <= end
Slice(q, start, end) == SubSeq(q, Min(start, Len(q)) + 1, Min(end, Len(q)))

\* Mutant: the slice size rounded down instead of up
per_workerFloor(n, nw) == n \div nw

per_worker(n, nw) == Ceil(n, nw)

SliceStart(n, nw, id) == id * per_worker(n, nw)

SliceEnd(n, nw, id) == Min(SliceStart(n, nw, id) + per_worker(n, nw), n)

\* Mutant: worker_info is ignored and every worker replays the whole index
PartitionWhole(q, nw, id) == q

\* the entries worker id of nw replays
Partition(q, nw, id) == Slice(q, SliceStart(Len(q), nw, id), SliceEnd(Len(q), nw, id))

\* pgn.seek(game_start); game = chess.pgn.read_game(pgn)
EntryGame(entry) == read_game(files[entry[1]], entry[2])

\* The generator runs on from entry e of its slice to the next entry whose
\* game is read (not None) and has a move; past the slice if there is none.
RECURSIVE NextPlayable(_, _)
NextPlayable(q, e) ==
    IF e > Len(q) THEN e
    ELSE IF EntryGame(q[e]) # None /\ EntryGame(q[e])[1].moves # << >> THEN e
    ELSE NextPlayable(q, e + 1)

\* encoded_board, move_index, value
Sample(board, move, value) == <<encode_board(board), move_to_index(move), value>>

\* The body of the loop over game.mainline_moves() for move k of the game of
\* entry e: the sample is made, the move is pushed, the sample is yielded.
\* What is yielded is logged in out, with the number of the index entry.
Emit(st, e, game, board, k) ==
    [pc |-> "suspended", indices |-> st.indices, base |-> st.base, e |-> e,
     game |-> Some(game), board |-> Some(push(board, game.moves[k])), k |-> k,
     out |-> Append(st.out, [entry |-> st.base + e,
                             sample |-> Sample(board, game.moves[k], st.indices[e][4])])]

\* the loop over the entries, from entry e on
Replay(st, e) ==
    LET n == NextPlayable(st.indices, e)
    IN IF n > Len(st.indices)
       THEN [st EXCEPT !.pc = "done", !.e = n, !.game = None, !.board = None, !.k = 0]
       ELSE Emit([st EXCEPT !.k = 0], n, EntryGame(st.indices[n])[1], StartBoard, 1)

\* pickle.load and the partition: worker_info is None (info = << >>) or
\* <<id, num_workers>>
Load(st, stored, info) ==
    [st EXCEPT !.indices = IF info = None THEN stored
                           ELSE Partition(stored, info[2], info[1]),
               !.base = IF info = None THEN 0
                        ELSE Min(SliceStart(Len(stored), info[2], info[1]), Len(stored))]

\* One next() on the generator: it runs to its next yield or to its end.
Resume(st, stored, info) ==
    IF st.pc = "created" THEN Replay(Load(st, stored, info), 1)
    ELSE IF st.k < Len(st.game[1].moves)
    THEN Emit(st, st.e, st.game[1], st.board[1], st.k + 1)
    ELSE Replay(st, st.e + 1)

\* The consumer without workers asks for the next sample.
MainNext ==
    /\ pc = "ready"
    /\ it.pc \in {"created", "suspended"}
    /\ it' = Resume(it, index_file[1], None)
    /\ UNCHANGED <<passes, wk>>
    /\ UNCHANGED <<inputs, indexer, indexing, encoding, frontends>>

\* The consumer drops its iterator midway.
MainAbandon ==
    /\ pc = "ready"
    /\ it.pc = "suspended"
    /\ it' = [it EXCEPT !.pc = "abandoned"]
    /\ UNCHANGED <<passes, wk>>
    /\ UNCHANGED <<inputs, indexer, indexing, encoding, frontends>>

\* Mutant: iter(dataset) hands back the generator of the earlier traversal
\* instead of a new one
MainRestartSameGenerator ==
    /\ pc = "ready"
    /\ it.pc \in {"done", "abandoned"}
    /\ passes = << >>
    /\ passes' = Append(passes, [pc |-> it.pc, out |-> it.out])
    /\ it' = [it EXCEPT !.out = << >>,
                        !.pc = IF it.pc = "abandoned" THEN "suspended" ELSE "done"]
    /\ UNCHANGED wk
    /\ UNCHANGED <<inputs, indexer, indexing, encoding, frontends>>

\* iter(dataset) once more, for a second traversal
MainRestart ==
    /\ pc = "ready"
    /\ it.pc \in {"done", "abandoned"}
    /\ passes = << >>
    /\ passes' = Append(passes, [pc |-> it.pc, out |-> it.out])
    /\ it' = NewIterator
    /\ UNCHANGED wk
    /\ UNCHANGED <<inputs, indexer, indexing, encoding, frontends>>

\* Worker w asks its own iterator for the next sample.
WorkerNext(w) ==
    /\ pc = "ready"
    /\ it.pc = "done"
    /\ wk[w].pc \in {"created", "suspended"}
    /\ wk' = [wk EXCEPT ![w] = Resume(wk[w], index_file[1], <<w, num_workers>>)]
    /\ UNCHANGED <<it, passes>>
    /\ UNCHANGED <<inputs, indexer, indexing, encoding, frontends>>

----------------------------------------------------------------------------
(* Specifications *)

\* The indexer alone, over every cap.
InitIndex ==
    \E list \in PathLists : \E fs \in FileSystems(list) : \E cap \in Caps :
        Construct(list, fs, cap, 0) /\ Intact /\ IndexingIdle /\ EncodingIdle /\ FrontendsIdle

NextIndex == CreateIndex

SpecIndex == InitIndex /\ [][NextIndex]_vars

\* Indexing without a cap, then one consumer that traverses the dataset up to
\* twice and may drop a traversal midway.
Init ==
    \E list \in PathLists : \E fs \in FileSystems(list) :
        Construct(list, fs, None, 0) /\ Intact /\ IndexingIdle /\ EncodingIdle /\ FrontendsIdle

Next ==
    \/ CreateIndex
    \/ MainNext
    \/ MainAbandon
    \/ MainRestart

Spec == Init /\ [][Next]_vars

\* Records with an Event tag, taken in turn to fill the archives of the workers
Cycle ==
    << GameRecord([t \in {"Event", "Result"} |-> IF t = "Event" THEN "?" ELSE "0-1"],
                  <<d2d4>>),
       GameRecord([t \in {"Event", "Result"} |-> IF t = "Event" THEN "?" ELSE "1-0"],
                  <<e2e4, e7e5, g1f3>>),
       GameRecord([t \in {"Event", "Result"} |-> IF t = "Event" THEN "?" ELSE "1/2-1/2"],
                  <<g1f3, e7e5>>) >>

CycleGame(k) == Cycle[((k - 1) % Len(Cycle)) + 1]

\* m records, the first j of them in a.pgn and the others in b.pgn
SplitFiles(m, j) ==
    [p \in Paths |-> IF p = "a.pgn" THEN [k \in 1..j |-> CycleGame(k)]
                     ELSE [k \in 1..(m - j) |-> CycleGame(j + k)]]

\* Indexing without a cap, one full traversal by a single consumer, then the
\* traversals of the workers of one data loader, interleaved in any order.
InitWorkers ==
    \E m \in 0..MaxIndex : \E j \in 0..m : \E nw \in 1..MaxWorkers :
        Construct(<<"a.pgn", "b.pgn">>, SplitFiles(m, j), None, nw)
            /\ Intact /\ IndexingIdle /\ EncodingIdle /\ FrontendsIdle

NextWorkers ==
    \/ CreateIndex
    \/ MainNext
    \/ \E w \in DOMAIN wk : WorkerNext(w)

SpecWorkers == InitWorkers /\ [][NextWorkers]_vars

----------------------------------------------------------------------------
(* Notions the properties are stated with *)

RECURSIVE SumMoveCount(_)
\* sum of move_count over a list of Game Index Entries
SumMoveCount(q) == IF q = << >> THEN 0 ELSE Head(q)[3] + SumMoveCount(Tail(q))

RECURSIVE BoardAfter(_, _)
\* the position reached from the starting board by the first n of the moves
BoardAfter(moves, n) ==
    IF n = 0 THEN StartBoard ELSE push(BoardAfter(moves, n - 1), moves[n])

\* the record an index entry was made from: the one read when it was made
IndexedGame(i) == files[indices[i][1]][entry_game[i]]

\* the samples of a log that come from index entry i, in the order yielded
RECURSIVE SamplesOf(_, _)
SamplesOf(log, i) ==
    IF log = << >> THEN << >>
    ELSE IF Head(log).entry = i THEN <<Head(log).sample>> \o SamplesOf(Tail(log), i)
    ELSE SamplesOf(Tail(log), i)

\* the first traversal of the single consumer has run to exhaustion
FirstTraversalDone == pc = "ready" /\ it.pc = "done" /\ passes = << >>

----------------------------------------------------------------------------
(* Properties of the streaming dataset *)

\* C1: one full single-consumer traversal yields as many samples as the sum of
\* move_count over the index, and every index entry contributes exactly its
\* own move_count samples.
C1_SampleCountIsSumOfMoveCounts ==
    FirstTraversalDone =>
        /\ Len(it.out) = SumMoveCount(index_file[1])
        /\ \A i \in 1..Len(index_file[1]) :
               Len(SamplesOf(it.out, i)) = index_file[1][i][3]

\* C2: the byte offset stored in every Game Index Entry is the file position at
\* which the record of that same game starts.
C2_OffsetIsStartOfOwnGame ==
    \A i \in 1..Len(indices) :
        indices[i][2] = RecordStart(files[indices[i][1]], entry_game[i])

\* C3: for every index entry and every k up to its move_count, the k-th sample
\* yielded for the entry is the encoding of the position after the first k-1
\* moves of the entry's own game, the index of its k-th move and the entry's
\* outcome.
C3_SamplesReplayOwnGame ==
    FirstTraversalDone =>
        \A i \in 1..Len(indices) :
            LET got == SamplesOf(it.out, i)
                g == IndexedGame(i)
            IN \A k \in 1..indices[i][3] :
                   /\ k <= Len(got)
                   /\ got[k] = Sample(BoardAfter(g.moves, k - 1), g.moves[k], indices[i][4])

\* the game whose position and move the samples of index entry i contain: the
\* one the traversal reads at the entry's offset
ReplayedGame(i) == EntryGame(index_file[1][i])[1]

\* C4: every sample carries the outcome of the Result tag of the game whose
\* position and move it contains, and the samples of one game all carry the
\* same outcome.
C4_OutcomeIsOfSampledGame ==
    pc = "ready" =>
        /\ \A n \in 1..Len(it.out) :
               it.out[n].sample[3] =
                   Outcome(headers_get(ReplayedGame(it.out[n].entry).headers, "Result", "*"))
        /\ \A n, m \in 1..Len(it.out) :
               it.out[n].entry = it.out[m].entry => it.out[n].sample[3] = it.out[m].sample[3]

\* the archive of the end-to-end scenario: the one game "1. e4 e5 2. Nf3 *"
\* with Result "1-0"
ScenarioGame ==
    GameRecord([t \in {"Event", "Result"} |-> IF t = "Event" THEN "?" ELSE "1-0"],
               <<e2e4, e7e5, g1f3>>)

ScenarioTraversed ==
    /\ pgn_files = <<"a.pgn">>
    /\ DOMAIN files = {"a.pgn"}
    /\ files["a.pgn"] = <<ScenarioGame>>
    /\ FirstTraversalDone

\* C5: for the archive with the one game "1. e4 e5 2. Nf3 *" and Result "1-0"
\* the dataset yields exactly 4 samples, the first with outcome +1.0 and the
\* index of e2-e4, the fourth with the position after e4 e5 Nf3 and outcome +1.0.
C5_EndToEndScenario ==
    ScenarioTraversed =>
        /\ Len(it.out) = 4
        /\ it.out[1].sample[2] = 12 * 64 + 28
        /\ it.out[1].sample[3] = 1
        /\ it.out[4].sample[1] = encode_board(BoardAfter(ScenarioGame.moves, 3))
        /\ it.out[4].sample[3] = 1


----------------------------------------------------------------------------
(* Properties of the partition among workers *)

RECURSIVE ConcatSlices(_, _, _)
\* the slices of workers 0..id of nw, one after the other
ConcatSlices(q, nw, id) ==
    IF id < 0 THEN << >> ELSE ConcatSlices(q, nw, id - 1) \o Partition(q, nw, id)

\* the positions (from 0) of the index that the slice of worker id covers
SlicePositions(n, nw, id) == { x \in 0..(n - 1) : SliceStart(n, nw, id) <= x /\ x < SliceEnd(n, nw, id) }

\* C6: the slices of workers 0..N-1 are pairwise disjoint and contiguous, their
\* concatenation in worker order is the whole index in its order, none has
\* more than ceil(M/N) entries, a worker whose start is at or past M has an
\* empty slice, and a worker that has started replays exactly its slice.
C6_PartitionCoversIndex ==
    pc = "ready" =>
        LET q == index_file[1]
            M == Len(q)
            N == num_workers
        IN /\ ConcatSlices(q, N, N - 1) = q
           /\ \A id \in 0..(N - 1) :
                /\ Len(Partition(q, N, id)) <= Ceil(M, N)
                /\ Len(Partition(q, N, id)) = Cardinality(SlicePositions(M, N, id))
                /\ id * Ceil(M, N) >= M => Partition(q, N, id) = << >>
                /\ \A x \in SlicePositions(M, N, id) :
                       Partition(q, N, id)[x - id * Ceil(M, N) + 1] = q[x + 1]
                /\ wk[id].pc # "created" => wk[id].indices = Partition(q, N, id)
           /\ \A id, jd \in 0..(N - 1) :
                id # jd => SlicePositions(M, N, id) \cap SlicePositions(M, N, jd) = {}
           /\ \A id \in 0..(N - 2) :
                SlicePositions(M, N, id + 1) # {} =>
                    SliceEnd(M, N, id) = SliceStart(M, N, id + 1)

\* C6 witness: five entries shared by four workers that have all started; the
\* start of the last worker lies past the end of the index.
C6_Witness ==
    /\ pc = "ready"
    /\ num_workers = 4
    /\ Len(index_file[1]) = 5
    /\ \A w \in DOMAIN wk : wk[w].pc # "created"
    /\ Len(wk[0].indices) = 2
    /\ Len(wk[2].indices) = 1
    /\ wk[3].indices = << >>
    /\ SliceStart(5, 4, 3) > 5

BagOfSeq(q) == [x \in Range(q) |-> Cardinality({ i \in DOMAIN q : q[i] = x })]

SamplesIn(log) == [n \in DOMAIN log |-> log[n].sample]

RECURSIVE WorkerSamples(_)
\* what workers 0..w have yielded, as one sequence
WorkerSamples(w) ==
    IF w < 0 THEN << >> ELSE WorkerSamples(w - 1) \o SamplesIn(wk[w].out)

AllDone == pc = "ready" /\ it.pc = "done" /\ \A w \in DOMAIN wk : wk[w].pc = "done"

C7_State ==
    /\ \A w, v \in DOMAIN wk :
          w # v => \A n \in DOMAIN wk[w].out : \A m \in DOMAIN wk[v].out :
                       wk[w].out[n].entry # wk[v].out[m].entry
    /\ \A w \in DOMAIN wk : \A n \in DOMAIN wk[w].out :
          SamplesIn(SubSeq(wk[w].out, 1, n)) \in
              { SubSeq(SamplesIn(it.out), a, b) : a, b \in 1..Len(it.out) }
    /\ AllDone => BagOfSeq(WorkerSamples(num_workers - 1)) = BagOfSeq(SamplesIn(it.out))

\* C7: in every interleaving of the workers, no game has samples from two
\* workers, what a worker has yielded so far is a run of consecutive samples
\* of the single-consumer traversal, the workers together yield the multiset
\* of samples of the single-consumer traversal, and no step of a worker
\* changes the index file, the archives or total_positions.
C7_WorkersPartitionTheTraversal ==
    /\ []C7_State
    /\ [][wk' # wk => /\ index_file' = index_file
                      /\ files' = files
                      /\ total_positions' = total_positions]_vars

\* C7 witness: every traversal is over and three workers have yielded samples.
C7_Witness ==
    /\ AllDone
    /\ num_workers >= 3
    /\ Len(it.out) >= 5
    /\ Cardinality({ w \in DOMAIN wk : wk[w].out # << >> }) >= 3

----------------------------------------------------------------------------
(* Restartability *)

IsPrefix(a, b) == Len(a) <= Len(b) /\ SubSeq(b, 1, Len(a)) = a

C8_State ==
    passes # << >> =>
        /\ IsPrefix(it.out, passes[1].out) \/ IsPrefix(passes[1].out, it.out)
        /\ passes[1].pc = "done" => IsPrefix(it.out, passes[1].out)
        /\ it.pc = "done" => IsPrefix(passes[1].out, it.out)

\* C8: a second traversal of the same dataset yields the samples of the first
\* in the same order (two full traversals yield the same sequence, an
\* abandoned one a prefix of it), and no step of a traversal, nor dropping or
\* restarting one, changes the persisted index or total_positions.
C8_TraversalIsRestartable ==
    /\ []C8_State
    /\ [][(it' # it \/ passes' # passes) =>
            /\ index_file' = index_file
            /\ total_positions' = total_positions
            /\ files' = files]_vars

\* C8 witness: two full traversals of an index that yields four samples.
C8_Witness ==
    /\ passes # << >>
    /\ passes[1].pc = "done"
    /\ it.pc = "done"
    /\ Len(it.out) >= 4

\* C8 witness of the abandoned case: the first traversal was dropped after two
\* samples and the second has run to its end.
C8_WitnessAbandoned ==
    /\ passes # << >>
    /\ passes[1].pc = "abandoned"
    /\ Len(passes[1].out) = 2
    /\ it.pc = "done"
    /\ Len(it.out) >= 4


----------------------------------------------------------------------------
(* Properties of the indexer *)

\* cumulative position count of the first n index entries
Cumulative(q, n) == SumMoveCount(SubSeq(q, 1, n))

\* What a cap promises of the scan, at every point of it: every entry but the
\* last leaves the cumulative count below the cap, every entry has the full
\* move count of its game, the running count is the sum over the entries, and
\* once an entry has brought the count to the cap no further game is read.
CapStopsScan(cap) ==
    /\ \A n \in 1..(Len(indices) - 1) : Cumulative(indices, n) < cap
    /\ \A n \in 1..Len(indices) : indices[n][3] = Len(IndexedGame(n).moves)
    /\ current_pos = Cumulative(indices, Len(indices))
    /\ (indices # << >> /\ current_pos >= cap) => pc \in {"endfile", "save", "ready"}
    /\ pc = "ready" => index_file = Some(indices) /\ total_positions = current_pos

C9_WitnessSameArchive ==
    /\ max_positions = Some(1)
    /\ pc = "ready"
    /\ Len(indices) = 1
    /\ total_positions = 3
    /\ "a.pgn" \in DOMAIN files
    /\ CountEventLines(files["a.pgn"]) = 3

RECURSIVE EntriesOf(_, _)
\* the index entries made for one archive
EntriesOf(q, path) ==
    IF q = << >> THEN << >>
    ELSE IF Head(q)[1] = path THEN <<Head(q)>> \o EntriesOf(Tail(q), path)
    ELSE EntriesOf(Tail(q), path)

RECURSIVE TotalPlies(_)
\* number of main-line plies over all games of an archive
TotalPlies(archive) ==
    IF archive = << >> THEN 0 ELSE Len(Head(archive).moves) + TotalPlies(Tail(archive))

\* C10: with no cap, once the index is built, every game of every archive has
\* exactly one entry and the move_counts of the entries of an archive add up
\* to the number of main-line plies of all its games.
C10_IndexCountsEveryPly ==
    (pc = "ready" /\ max_positions = None) =>
        \A path \in Range(pgn_files) \cap DOMAIN files :
            /\ Len(EntriesOf(index_file[1], path)) = Len(files[path])
            /\ SumMoveCount(EntriesOf(index_file[1], path)) = TotalPlies(files[path])


\* C11: once the dataset is constructed, for any list of archives and any cap,
\* len(dataset) is the sum of move_count over the entries of the persisted index.
C11_LenIsSumOfIndex ==
    pc = "ready" => dataset_len = SumMoveCount(index_file[1])

\* C11 witness: a capped scan of a list whose first path is missing has
\* indexed two games of four positions in all.
C11_Witness ==
    /\ pc = "ready"
    /\ max_positions = Some(3)
    /\ pgn_files = <<"a.pgn", "b.pgn">>
    /\ "a.pgn" \notin DOMAIN files
    /\ Len(index_file[1]) = 2
    /\ dataset_len = 4

\* C11 witness with two archives: both have contributed positions.
C11_WitnessTwoArchives ==
    /\ pc = "ready"
    /\ EntriesOf(index_file[1], "a.pgn") # << >>
    /\ EntriesOf(index_file[1], "b.pgn") # << >>
    /\ SumMoveCount(EntriesOf(index_file[1], "b.pgn")) > 0
    /\ dataset_len >= 4

RECURSIVE PresentOnly(_)
\* a list of paths without the paths that do not exist
PresentOnly(list) ==
    IF list = << >> THEN << >>
    ELSE IF Head(list) \in DOMAIN files THEN <<Head(list)>> \o PresentOnly(Tail(list))
    ELSE PresentOnly(Tail(list))

\* the entries of the games an uncapped scan of one archive reads
ScanOf(path) ==
    [k \in 1..CountEventLines(files[path]) |->
        IndexEntry(path, files[path], RecordStart(files[path], k), files[path][k])]

RECURSIVE ScanOfAll(_)
\* the entries an uncapped scan of a list of existing archives makes
ScanOfAll(list) ==
    IF list = << >> THEN << >> ELSE ScanOf(Head(list)) \o ScanOfAll(Tail(list))

\* a list of entries cut after the first entry that brings the count to the cap
CutAtCap(q, cap) ==
    IF Truthy(cap) /\ \E n \in 1..Len(q) : Cumulative(q, n) >= cap[1]
    THEN SubSeq(q, 1, CHOOSE n \in 1..Len(q) :
                        /\ Cumulative(q, n) >= cap[1]
                        /\ \A m \in 1..(n - 1) : Cumulative(q, m) < cap[1])
    ELSE q

\* C12: a missing path is warned about and skipped: the scan goes on to the
\* paths after it, every missing path the scan has come to is in the warnings
\* (and no other path), and the index is the one the list without its missing
\* paths gives.
C12_MissingPathIsSkipped ==
    /\ pc # "raised"
    /\ warned = { pgn_files[i] : i \in { n \in 1..Len(pgn_files) :
                                           n < fi /\ pgn_files[n] \notin DOMAIN files } }
    /\ pc = "ready" =>
          index_file[1] = CutAtCap(ScanOfAll(PresentOnly(pgn_files)), max_positions)

\* C12 witness: a.pgn is missing and warned about, and the two games of b.pgn,
\* listed after it, are indexed.
C12_Witness ==
    /\ pc = "ready"
    /\ pgn_files = <<"a.pgn", "b.pgn">>
    /\ "a.pgn" \notin DOMAIN files
    /\ warned = {"a.pgn"}
    /\ Len(EntriesOf(index_file[1], "b.pgn")) = 2
    /\ dataset_len >= 2


----------------------------------------------------------------------------
(* Damaged archives *)

\* How a record can be damaged.  "malformed": the movetext turns unparseable
\* or the record is cut short; the parser logs the error in game.errors and
\* returns the game with the moves it has read up to there (the moves of the
\* record in the model).  "undecodable": the record holds bytes that do not
\* decode as text.
Damages == {"malformed", "undecodable"}

\* The indexer over archives one record of which is damaged.
InitCorrupt ==
    \E list \in PathLists : \E fs \in FileSystems(list) :
        \E path \in DOMAIN fs : \E k \in 1..Len(fs[path]) : \E kind \in Damages :
            /\ Construct(list, fs, None, 0)
            /\ corrupt = { <<path, k, kind>> }
            /\ IndexingIdle
            /\ EncodingIdle /\ FrontendsIdle

NextCorrupt == CreateIndex

SpecCorrupt == InitCorrupt /\ [][NextCorrupt]_vars

\* C13: a damaged record never makes the scan fail, and the scan of its
\* archive stops at the last record before it: no entry is made for the
\* damaged record or for a record after it in that archive, and the index is
\* persisted with the entries made.
C13_DamagedRecordEndsArchive ==
    /\ pc # "raised"
    /\ \A i \in 1..Len(indices) : \A d \in corrupt :
          indices[i][1] = d[1] => entry_game[i] < d[2]
    /\ pc = "ready" => index_file = Some(indices)


----------------------------------------------------------------------------
(* Outcomes *)

\* the values of the Result tag the archives of this part hold
ResultTags == {"1-0", "0-1", "1/2-1/2", "*", "0-0"}

\* one-move games with an Event tag: one for each value of the Result tag and
\* one without a Result tag
ResultPool ==
    { GameRecord([t \in {"Event", "Result"} |-> IF t = "Event" THEN "?" ELSE r], <<e2e4>>)
        : r \in ResultTags }
    \cup { GameRecord([t \in {"Event"} |-> "?"], <<d2d4>>) }

\* The indexer over one archive of up to MaxResults such games.
InitResults ==
    \E archive \in SeqsUpTo(ResultPool, MaxResults) :
        /\ Construct(<<"a.pgn">>, [p \in {"a.pgn"} |-> archive], None, 0)
        /\ Intact
        /\ IndexingIdle
        /\ EncodingIdle /\ FrontendsIdle

NextResults == CreateIndex

SpecResults == InitResults /\ [][NextResults]_vars

\* C14: the outcome of every index entry is +1.0 if the Result tag of its game
\* is "1-0", -1.0 if it is "0-1" and 0.0 for any other value and for a game
\* without Result tag; no other value is in the index.
C14_OutcomeOfResultTag ==
    \A i \in 1..Len(indices) :
        LET h == IndexedGame(i).headers
            v == indices[i][4]
        IN /\ v \in {1, -1, 0}
           /\ v = 1 <=> ("Result" \in DOMAIN h /\ h["Result"] = "1-0")
           /\ v = -1 <=> ("Result" \in DOMAIN h /\ h["Result"] = "0-1")

\* the Result tag of the game of index entry i
ResultTagOf(i) == headers_get(IndexedGame(i).headers, "Result", "no tag")

\* C14 witness: the index of a win of White, a game without Result tag and a
\* game with Result "*".
C14_Witness ==
    /\ pc = "ready"
    /\ Len(index_file[1]) = 3
    /\ ResultTagOf(1) = "1-0"
    /\ ResultTagOf(2) = "no tag"
    /\ ResultTagOf(3) = "*"
    /\ index_file[1][1][4] = 1
    /\ index_file[1][2][4] = 0
    /\ index_file[1][3][4] = 0

\* C14 witness: the index of a win of Black, a draw and a game with a Result
\* tag that is none of the four results.
C14_WitnessOthers ==
    /\ pc = "ready"
    /\ Len(index_file[1]) = 3
    /\ ResultTagOf(1) = "0-1"
    /\ ResultTagOf(2) = "1/2-1/2"
    /\ ResultTagOf(3) = "0-0"
    /\ index_file[1][1][4] = -1
    /\ index_file[1][2][4] = 0
    /\ index_file[1][3][4] = 0


----------------------------------------------------------------------------
(* The move indexer of utils/board_utils.py, called on its own *)

\* promotion pieces of a move: none, knight, bishop, rook, queen
Promotions == {0, 2, 3, 4, 5}

\* the moves given to move_to_index
MoveInputs == { [from_square |-> f, to_square |-> t, promotion |-> p]
                    : f \in Squares, t \in Squares, p \in Promotions }

\* the indices given to index_to_move
IndexInputs == (0 - MaxOutside)..(4095 + MaxOutside)

\* move_to_index(m) is called on any of the moves
CallMoveToIndex ==
    /\ upc = "idle"
    /\ \E m \in MoveInputs :
        /\ move_in' = Some(m)
        /\ index_out' = Some(move_to_index(m))
    /\ upc' = "to_index"
    /\ UNCHANGED <<move_back, index_in, move_out, index_back, lookup, lookup_from>>
    /\ UNCHANGED <<dataset, encoding, frontends>>

\* index_to_move is called on what move_to_index returned
MoveRoundTrip ==
    /\ upc = "to_index"
    /\ move_back' = Some(index_to_move(index_out[1]))
    /\ upc' = "to_index_back"
    /\ UNCHANGED <<move_in, index_out, index_in, move_out, index_back, lookup, lookup_from>>
    /\ UNCHANGED <<dataset, encoding, frontends>>

\* index_to_move(i) is called on any of the indices
CallIndexToMove ==
    /\ upc = "idle"
    /\ \E i \in IndexInputs :
        /\ index_in' = Some(i)
        /\ move_out' = Some(index_to_move(i))
    /\ upc' = "to_move"
    /\ UNCHANGED <<move_in, index_out, move_back, index_back, lookup, lookup_from>>
    /\ UNCHANGED <<dataset, encoding, frontends>>

\* move_to_index is called on what index_to_move returned
IndexRoundTrip ==
    /\ upc = "to_move"
    /\ index_back' = Some(move_to_index(move_out[1]))
    /\ upc' = "to_move_back"
    /\ UNCHANGED <<move_in, index_out, move_back, index_in, move_out, lookup, lookup_from>>
    /\ UNCHANGED <<dataset, encoding, frontends>>

\* the keys written by the inner loop for to_square in range(64) of one
\* from_square
RowKeys(f) == { move_to_index(Move(f, t)) : t \in Squares }

\* the last to_square of the inner loop whose move is stored under the key:
\* moves[index] = move overwrites what an earlier to_square stored there
LastTo(f, key) ==
    CHOOSE t \in Squares :
        /\ move_to_index(Move(f, t)) = key
        /\ \A u \in Squares : move_to_index(Move(f, u)) = key => u <= t

\* the dictionary after the inner loop of one from_square
LookupInner(dict, f) ==
    [key \in RowKeys(f) |-> Move(f, LastTo(f, key))] @@ dict

\* create_move_lookup() is called: moves = {}
LookupBegin ==
    /\ upc = "idle"
    /\ lookup' = << >>
    /\ lookup_from' = 0
    /\ upc' = "lookup"
    /\ UNCHANGED <<move_in, index_out, move_back, index_in, move_out, index_back>>
    /\ UNCHANGED <<dataset, encoding, frontends>>

\* one iteration of for from_square in range(64)
LookupRow ==
    /\ upc = "lookup"
    /\ lookup_from < 64
    /\ lookup' = LookupInner(lookup, lookup_from)
    /\ lookup_from' = lookup_from + 1
    /\ UNCHANGED <<upc, move_in, index_out, move_back, index_in, move_out, index_back>>
    /\ UNCHANGED <<dataset, encoding, frontends>>

\* return moves
LookupReturn ==
    /\ upc = "lookup"
    /\ lookup_from = 64
    /\ upc' = "lookup_done"
    /\ UNCHANGED <<move_in, index_out, move_back, index_in, move_out, index_back,
                   lookup, lookup_from>>
    /\ UNCHANGED <<dataset, encoding, frontends>>

InitMoves == NoDataset /\ IndexingIdle /\ EncodingIdle /\ FrontendsIdle

NextMoves ==
    \/ CallMoveToIndex
    \/ MoveRoundTrip
    \/ CallIndexToMove
    \/ IndexRoundTrip
    \/ LookupBegin
    \/ LookupRow
    \/ LookupReturn

SpecMoves == InitMoves /\ [][NextMoves]_vars


\* the indices of the policy vector
PolicyIndices == 0..4095

\* C15: for every move with both squares in 0..63 move_to_index returns
\* from_square*64 + to_square, a number of 0..4095; the 64x64 pairs of squares
\* get pairwise distinct indices: each iteration of create_move_lookup adds 64
\* new keys, and the finished lookup has exactly the 4096 keys 0..4095.
C15_IndexIsFromTimes64PlusTo ==
    /\ index_out # None =>
        /\ index_out[1] = move_in[1].from_square * 64 + move_in[1].to_square
        /\ index_out[1] \in PolicyIndices
    /\ upc \in {"lookup", "lookup_done"} =>
        Cardinality(DOMAIN lookup) = 64 * lookup_from
    /\ upc = "lookup_done" =>
        /\ DOMAIN lookup = PolicyIndices
        /\ Cardinality(DOMAIN lookup) = 4096

\* create_move_lookup has returned its 4096 keys
C15_Witness ==
    /\ upc = "lookup_done"
    /\ lookup_from = 64
    /\ Cardinality(DOMAIN lookup) = 4096
    /\ lookup[4095] = Move(63, 63)

\* the move h8h8 of the last pair of squares was indexed as 4095
C15_WitnessLastPair ==
    /\ move_in = Some(Move(63, 63))
    /\ index_out = Some(4095)

\* C16: for every pair (from, to) of squares, index_to_move applied to
\* move_to_index(Move(from, to)) gives a move with from_square = from and
\* to_square = to.
C16_MoveRoundTrip ==
    upc = "to_index_back" =>
        /\ move_back[1].from_square = move_in[1].from_square
        /\ move_back[1].to_square = move_in[1].to_square

\* g1f3 went to its index 405 and came back as g1f3
C16_Witness ==
    /\ upc = "to_index_back"
    /\ move_in = Some(g1f3)
    /\ index_out = Some(405)
    /\ move_back = Some(g1f3)

\* C17: for every index i of 0..4095, move_to_index applied to
\* index_to_move(i) gives i.
C17_IndexRoundTrip ==
    (upc = "to_move_back" /\ index_in[1] \in PolicyIndices) =>
        index_back = index_in

\* the index 796 went to the move e2e4 and came back as 796
C17_Witness ==
    /\ upc = "to_move_back"
    /\ index_in = Some(796)
    /\ move_out = Some(e2e4)
    /\ index_back = Some(796)

\* the move of index_in with another promotion piece
Promoting(m, p) == [m EXCEPT !.promotion = p]

C19_OutOfRangeIndexGivesNoMove ==
    (index_in # None /\ index_in[1] \notin PolicyIndices) => move_out = None


----------------------------------------------------------------------------
(* The board encoder of utils/board_utils.py, called on the boards of a game *)

\* Mutant: the tensor of the call before is kept and written over
encode_callKeepingState(earlier, board) ==
    IF earlier = << >> THEN encode_board(board)
    ELSE [ch \in 0..13 |-> [row \in 0..7 |-> [col \in 0..7 |->
            IF ch <= 11 /\ earlier[Len(earlier)].tensor[ch][row][col] = 4 THEN 4
            ELSE encode_board(board)[ch][row][col]]]]

\* encoded_board = encode_board(board): the tensor is made anew by np.zeros in
\* each call, nothing of the earlier calls is read
encode_call(earlier, board) == encode_board(board)

\* the board has been encoded and the move of the game is pushed on it; what
\* encode_board returned before is not the encoding of the new position
Push ==
    /\ ply < MaxPly
    /\ encoded # None
    /\ \E m \in pseudo_legal_moves(position) :
        position' = push(position, m)
    /\ ply' = ply + 1
    /\ encoded' = None
    /\ UNCHANGED <<initial, games, calls>>
    /\ UNCHANGED <<dataset, indexing, frontends>>

\* encode_board(board) is called on the position
Encode ==
    /\ encoded = None
    /\ Len(calls) < MaxCalls
    /\ LET tensor == encode_call(calls, position)
       IN /\ encoded' = Some(tensor)
          /\ calls' = Append(calls, [game |-> games, ply |-> ply,
                                     board |-> position, tensor |-> tensor])
    /\ UNCHANGED <<position, ply, initial, games>>
    /\ UNCHANGED <<dataset, indexing, frontends>>

\* the moves of the game are used up and the next game is replayed from
\* game.board()
NextGame ==
    /\ ply > 0
    /\ encoded = None
    /\ Len(calls) < MaxCalls
    /\ position' = initial
    /\ ply' = 0
    /\ games' = games + 1
    /\ UNCHANGED <<encoded, initial, calls>>
    /\ UNCHANGED <<dataset, indexing, frontends>>

InitEncode == NoDataset /\ IndexingIdle /\ EncodingIdle /\ FrontendsIdle

NextEncode == Push \/ Encode \/ NextGame

SpecEncode == InitEncode /\ [][NextEncode]_vars

\* a board on which all four castling rights are held and the rooks and kings
\* can move: the kings on e1 and e8, the rooks on the corners, White to move
CastleBoard ==
    [pieces |-> [s \in Squares |->
                    IF s \in {0, 7} THEN Piece(4, TRUE)
                    ELSE IF s = 4 THEN Piece(6, TRUE)
                    ELSE IF s \in {56, 63} THEN Piece(4, FALSE)
                    ELSE IF s = 60 THEN Piece(6, FALSE)
                    ELSE NoPiece],
     turn |-> TRUE,
     castling |-> {0, 7, 56, 63}]

\* the games replayed start from the position of their FEN header
InitCastle == NoDataset /\ IndexingIdle /\ EncodingFrom(CastleBoard) /\ FrontendsIdle

SpecCastle == InitCastle /\ [][NextEncode]_vars

\* the tensor encode_board returned
Tensor == encoded[1]

\* C20: the piece on the square of file f and rank r (square 8*r + f) is
\* written at row 7 - r and column f of its plane, and no other cell of the
\* twelve piece planes is set; the starting position has its White pawns in
\* row 6 of plane 0 and its Black pawns in row 1 of plane 6.
C20_RankEightIsRowZero ==
    encoded # None =>
        /\ \A f \in 0..7, r \in 0..7 :
            LET piece == piece_at(position, 8 * r + f)
            IN \A ch \in 0..11 :
                Tensor[ch][7 - r][f] = 4 <=> (piece # NoPiece /\ channel(piece) = ch)
        /\ ply = 0 =>
            /\ \A col \in 0..7 : Tensor[0][6][col] = 4 /\ Tensor[6][1][col] = 4
            /\ \A row \in 0..7, col \in 0..7 :
                /\ row # 6 => Tensor[0][row][col] = 0
                /\ row # 1 => Tensor[6][row][col] = 0

\* after 1. e4 e5 the White pawn of e4 (file 4, rank 3) is at row 4, column 4
\* of plane 0 and the Black pawn of e5 (file 4, rank 4) at row 3 of plane 6
C20_Witness ==
    /\ encoded # None
    /\ ply = 2
    /\ piece_at(position, 28) = Piece(1, TRUE)
    /\ piece_at(position, 36) = Piece(1, FALSE)
    /\ Tensor[0][4][4] = 4
    /\ Tensor[6][3][4] = 4

\* the starting position is encoded: White pawns in row 6, Black pawns in row 1
C20_WitnessStart ==
    /\ encoded # None
    /\ ply = 0
    /\ position = StartBoard
    /\ Tensor[0][6][0] = 4
    /\ Tensor[6][1][7] = 4


\* the planes of 0..11 that hold 1.0 at the cell of the square
PlanesSetAt(tensor, square) ==
    { ch \in 0..11 : tensor[ch][7 - (square \div 8)][square % 8] = 4 }

\* C21: at the cell of an occupied square exactly one of the planes 0..11
\* holds 1.0, the plane of the piece type (pawn, knight, bishop, rook, queen,
\* king) plus 6 for Black; at the cell of an empty square all twelve hold 0.0;
\* no cell of the planes 0..11 holds anything but 0.0 or 1.0.
C21_PiecePlanesAreOneHot ==
    encoded # None =>
        /\ \A ch \in 0..11, row \in 0..7, col \in 0..7 : Tensor[ch][row][col] \in {0, 4}
        /\ \A square \in Squares :
            LET piece == piece_at(position, square)
            IN IF piece = NoPiece
               THEN PlanesSetAt(Tensor, square) = {}
               ELSE PlanesSetAt(Tensor, square) =
                        {(piece.piece_type - 1) + (IF piece.color THEN 0 ELSE 6)}

\* after 1. Nf3 the White knight of f3 is in plane 1 only, the Black queen of
\* d8 in plane 10 only, and the cell of the empty square g1 is 0.0 everywhere
C21_Witness ==
    /\ encoded # None
    /\ ply = 1
    /\ piece_at(position, 21) = Piece(2, TRUE)
    /\ PlanesSetAt(Tensor, 21) = {1}
    /\ PlanesSetAt(Tensor, 59) = {10}
    /\ piece_at(position, 6) = NoPiece
    /\ PlanesSetAt(Tensor, 6) = {}

\* the plane holds the value in all its 64 cells
Uniform(plane, value) == \A row \in 0..7, col \in 0..7 : plane[row][col] = value

\* C22: plane 12 is 1.0 in all 64 cells when White is to move and 0.0 in all
\* when Black is; along a game replayed from the starting position the samples
\* alternate 1.0, 0.0, 1.0, ... from 1.0 for the starting position.
C22_Plane12IsSideToMove ==
    \A i \in DOMAIN calls :
        /\ Uniform(calls[i].tensor[12], IF calls[i].board.turn THEN 4 ELSE 0)
        /\ Uniform(calls[i].tensor[12], IF calls[i].ply % 2 = 0 THEN 4 ELSE 0)

\* the first three samples of a game: 1.0, 0.0, 1.0
C22_Witness ==
    /\ Len(calls) >= 3
    /\ \A i \in 1..3 : calls[i].game = 0 /\ calls[i].ply = i - 1
    /\ calls[1].board = StartBoard
    /\ Uniform(calls[1].tensor[12], 4)
    /\ Uniform(calls[2].tensor[12], 0)
    /\ Uniform(calls[3].tensor[12], 4)

\* the castling rights still available on the board
RightsHeld(board) ==
    { r \in {TRUE, FALSE} \X {"kingside", "queenside"} :
        IF r[2] = "kingside" THEN has_kingside_castling_rights(board, r[1])
        ELSE has_queenside_castling_rights(board, r[1]) }

\* C23: plane 13 holds in all its cells the number of castling rights still
\* available (White and Black, kingside and queenside) divided by 4, one of
\* 0, 0.25, 0.5, 0.75, 1.0; along a replayed game it never increases from
\* one sample to a later one.
C23_Plane13IsCastlingRights ==
    /\ \A i \in DOMAIN calls :
        /\ Uniform(calls[i].tensor[13], Cardinality(RightsHeld(calls[i].board)))
        /\ calls[i].tensor[13][0][0] \in 0..4
    /\ \A i, j \in DOMAIN calls :
        (i < j /\ calls[i].game = calls[j].game) =>
            calls[j].tensor[13][0][0] <= calls[i].tensor[13][0][0]

\* a game whose samples hold 1.0, then 0.75 after a White rook left its
\* corner, then 0.25 after the Black king moved
C23_Witness ==
    /\ Len(calls) >= 3
    /\ \A i \in 1..3 : calls[i].game = 0
    /\ calls[1].tensor[13][0][0] = 4
    /\ calls[2].tensor[13][0][0] = 3
    /\ calls[3].tensor[13][0][0] = 1
    /\ piece_at(calls[3].board, 60) = NoPiece

\* a game in which a rook takes a rook on its corner: both sides lose a right
\* at once and plane 13 falls from 1.0 to 0.5
C23_WitnessCapture ==
    /\ Len(calls) >= 2
    /\ calls[1].game = calls[2].game
    /\ calls[1].tensor[13][0][0] = 4
    /\ calls[2].tensor[13][0][0] = 2
    /\ piece_at(calls[2].board, 56) = Piece(4, TRUE)

\* two calls on identical positions return tensors equal cell by cell
SameBoardSameTensor ==
    \A i, j \in DOMAIN calls :
        calls[i].board = calls[j].board => calls[i].tensor = calls[j].tensor

\* a call of encode_board leaves the board as it was given
CallLeavesBoard ==
    calls' # calls =>
        /\ position' = position
        /\ ply' = ply
        /\ calls'[Len(calls')].board = position'

----------------------------------------------------------------------------
(* inference.py: ChessEngine.evaluate_position *)

\* no dataset is built and board_utils is not called on its own
PipelineIdle == NoDataset /\ IndexingIdle /\ EncodingIdle

\* a board of the given pieces with no castling rights
Place(placed, turn) ==
    [pieces |-> [s \in Squares |-> IF s \in DOMAIN placed THEN placed[s] ELSE NoPiece],
     turn |-> turn,
     castling |-> {}]

\* White to move is mated: 1. f3 e5 2. g4 Qh4
MatedBoard ==
    push(push(push(push(StartBoard, Move(13, 21)), e7e5), Move(14, 30)), Move(59, 31))

\* White to move: the pawn of a7 promotes on a8 in four ways, and the king of
\* e1 may not step on the d-file of the Black rook
PromotionBoard ==
    Place((48 :> Piece(1, TRUE)) @@ (4 :> Piece(6, TRUE))
          @@ (59 :> Piece(4, FALSE)) @@ (62 :> Piece(6, FALSE)), TRUE)

\* the boards given to evaluate_position
EvalBoards == {StartBoard, CastleBoard, MatedBoard, PromotionBoard}

\* the indices a network may put its highest probability on: of the illegal
\* king move e1d1, of the promotions a7a8 and of e2e4
HotIndices == {259, 3128, 796}

\* the networks: the policy output is fixed by three numbers
Nets == [slope : 0..MaxSlope, shift : 0..MaxLevel, hot : HotIndices]

\* policy_probs[idx] of the network, in units of the smallest probability
policy_probs(n, idx) ==
    IF idx = n.hot THEN MaxLevel + 1
    ELSE (idx * n.slope + n.shift) % (MaxLevel + 1)

\* the place of a move in the enumeration of board.legal_moves
MoveKey(m) == (m.from_square * 64 + m.to_square) * 8 + m.promotion

\* list(moves): the moves in the order the library enumerates them
ListOf(moves) ==
    [i \in 1..Cardinality(moves) |->
        CHOOSE m \in moves :
            Cardinality({x \in moves : MoveKey(x) < MoveKey(m)}) = i - 1]

\* Mutant: the moves that leave the own king attacked are listed too
legal_movesWithPseudo(board) == ListOf(pseudo_legal_moves(board))

\* legal_moves = list(board.legal_moves)
legal_moves(board) == ListOf(LegalMoves(board))

\* the loop of lines 61-65 over the list legal: one (move, prob) per move, in
\* the order of the list
paired(n, legal) ==
    [i \in 1..Len(legal) |->
        [move |-> legal[i],
         prob |-> policy_probs(n, legal[i].from_square * 64 + legal[i].to_square)]]

\* move_probs before it is sorted
move_probs_of(n, board) == paired(n, legal_moves(board))

\* Mutant: sort(key=prob) without reverse
sort_reverseAscending(entries) ==
    [i \in 1..Len(entries) |->
        entries[CHOOSE k \in 1..Len(entries) :
            Cardinality({j \in 1..Len(entries) :
                \/ entries[j].prob < entries[k].prob
                \/ entries[j].prob = entries[k].prob /\ j < k}) = i - 1]]

\* move_probs.sort(key=prob, reverse=True): the entry at place i has i-1
\* entries before it, those of greater key and those of equal key that stood
\* before it (the sort is stable, reverse keeps the order of equal keys)
sort_reverse(entries) ==
    [i \in 1..Len(entries) |->
        entries[CHOOSE k \in 1..Len(entries) :
            Cardinality({j \in 1..Len(entries) :
                \/ entries[j].prob > entries[k].prob
                \/ entries[j].prob = entries[k].prob /\ j < k}) = i - 1]]

\* lines 71-73: best_move and move_probs of the returned tuple
returned(ranked) ==
    [best_move |-> IF ranked # << >> THEN Some(ranked[1].move) ELSE None,
     move_probs |-> ranked]

\* evaluate_position(board)
evaluate_position(n, board) == returned(sort_reverse(move_probs_of(n, board)))

\* evaluate_position is called on the board
Evaluate ==
    /\ epc = "idle"
    /\ LET result == evaluate_position(net[1], eboard)
       IN /\ best_move' = result.best_move
          /\ move_probs' = result.move_probs
    /\ epc' = "evaluated"
    /\ UNCHANGED <<net, eboard, pushes>>
    /\ UNCHANGED <<dataset, indexing, encoding, gui>>

InitEvaluate ==
    /\ PipelineIdle
    /\ net \in {Some(n) : n \in Nets}
    /\ eboard \in EvalBoards
    /\ epc = "idle"
    /\ best_move = None
    /\ move_probs = << >>
    /\ pushes = << >>
    /\ GuiIdle

NextEvaluate == Evaluate

SpecEvaluate == InitEvaluate /\ [][NextEvaluate]_vars

\* C25: best_move is never a move outside the legal moves of the position:
\* with a legal move, it is a legal move whose raw probability is the largest
\* of all legal moves; with none, best_move is None and the list is empty.
C25_BestMoveIsLegalArgmax ==
    epc = "evaluated" =>
        IF LegalMoves(eboard) = {}
        THEN best_move = None /\ move_probs = << >>
        ELSE /\ best_move # None
             /\ best_move[1] \in LegalMoves(eboard)
             /\ \A m \in LegalMoves(eboard) :
                    policy_probs(net[1], best_move[1].from_square * 64 + best_move[1].to_square)
                        >= policy_probs(net[1], m.from_square * 64 + m.to_square)

\* the network puts its highest probability on the illegal e1d1 and the best
\* move is a legal one all the same
C25_Witness ==
    /\ epc = "evaluated"
    /\ eboard = PromotionBoard
    /\ net[1].hot = 259
    /\ Move(4, 3) \notin LegalMoves(eboard)
    /\ best_move # None
    /\ best_move[1] \in LegalMoves(eboard)

\* the mated side has no legal move: best_move is None, the list is empty
C25_WitnessMated ==
    /\ epc = "evaluated"
    /\ eboard = MatedBoard
    /\ best_move = None
    /\ move_probs = << >>

\* C26: the ranked list holds one entry per legal move and no other move, each
\* with the raw probability of the network at from_square*64 + to_square; the
\* probabilities do not increase along the list, and entries of equal
\* probability stand in the order of the legal-move enumeration.
C26_RankedListIsLegalMovesByProbability ==
    epc = "evaluated" =>
        /\ Len(move_probs) = Cardinality(LegalMoves(eboard))
        /\ { move_probs[i].move : i \in DOMAIN move_probs } = LegalMoves(eboard)
        /\ \A i \in DOMAIN move_probs :
            move_probs[i].prob =
                policy_probs(net[1], move_probs[i].move.from_square * 64
                                     + move_probs[i].move.to_square)
        /\ \A i, j \in DOMAIN move_probs :
            i < j =>
                /\ move_probs[i].prob >= move_probs[j].prob
                /\ move_probs[i].prob = move_probs[j].prob =>
                    MoveKey(move_probs[i].move) < MoveKey(move_probs[j].move)

\* the four promotions a7a8 share the highest probability and stand first, in
\* the order of the enumeration, before moves of lower probability
C26_Witness ==
    /\ epc = "evaluated"
    /\ eboard = PromotionBoard
    /\ net[1].hot = 3128
    /\ Len(move_probs) = 7
    /\ \A i \in 1..4 : /\ move_probs[i].move.promotion = i + 1
                       /\ move_probs[i].prob = MaxLevel + 1
    /\ move_probs[5].prob > move_probs[7].prob


----------------------------------------------------------------------------
(* inference.py: ChessEngine.play_game *)

\* chess.Move.null(), which board.parse_san returns for "--"
NullMove == [from_square |-> 0, to_square |-> 0, promotion |-> 0]

\* board.push(chess.Move.null()): the turn passes and nothing moves
push_null(board) == [board EXCEPT !.turn = ~board.turn]

\* board.san(move) is defined when a piece stands on the from square of the
\* move; otherwise the library raises
san_defined(board, m) == piece_at(board, m.from_square) # NoPiece

\* while not board.is_game_over(), and the test of board.turn
LoopTest ==
    /\ epc = "loop"
    /\ epc' = IF is_game_over(eboard) THEN "over"
              ELSE IF eboard.turn THEN "player" ELSE "ai"
    /\ UNCHANGED <<net, eboard, best_move, move_probs, pushes>>
    /\ UNCHANGED <<dataset, indexing, encoding, gui>>

\* the player enters a legal move in UCI or SAN and it is pushed; an input
\* that is no move, or an illegal move in UCI, asks again
PlayerMove ==
    /\ epc = "player"
    /\ \E m \in LegalMoves(eboard) :
        /\ pushes' = Append(pushes, [board |-> eboard, move |-> m])
        /\ eboard' = push(eboard, m)
    /\ epc' = "loop"
    /\ UNCHANGED <<net, best_move, move_probs>>
    /\ UNCHANGED <<dataset, indexing, encoding, gui>>

\* the player enters "--": from_uci raises ValueError, board.parse_san returns
\* the null move, and it is pushed
PlayerNullMove ==
    /\ epc = "player"
    /\ pushes' = Append(pushes, [board |-> eboard, move |-> NullMove])
    /\ eboard' = push_null(eboard)
    /\ epc' = "loop"
    /\ UNCHANGED <<net, best_move, move_probs>>
    /\ UNCHANGED <<dataset, indexing, encoding, gui>>

\* KeyboardInterrupt at the prompt: play_game returns
PlayerAbort ==
    /\ epc = "player"
    /\ epc' = "aborted"
    /\ UNCHANGED <<net, eboard, best_move, move_probs, pushes>>
    /\ UNCHANGED <<dataset, indexing, encoding, gui>>

\* value, best_move, move_probs = self.evaluate_position(board)
AiEvaluate ==
    /\ epc = "ai"
    /\ LET result == evaluate_position(net[1], eboard)
       IN /\ best_move' = result.best_move
          /\ move_probs' = result.move_probs
    /\ epc' = "ai_top"
    /\ UNCHANGED <<net, eboard, pushes>>
    /\ UNCHANGED <<dataset, indexing, encoding, gui>>

\* the top three moves are printed with board.san(move)
AiPrintTop ==
    /\ epc = "ai_top"
    /\ epc' = IF \A i \in 1..Min(3, Len(move_probs)) : san_defined(eboard, move_probs[i].move)
              THEN "ai_push" ELSE "raised"
    /\ UNCHANGED <<net, eboard, best_move, move_probs, pushes>>
    /\ UNCHANGED <<dataset, indexing, encoding, gui>>

\* board.push(best_move)
AiPush ==
    /\ epc = "ai_push"
    /\ pushes' = Append(pushes, [board |-> eboard, move |-> best_move[1]])
    /\ eboard' = push(eboard, best_move[1])
    /\ epc' = "ai_played"
    /\ UNCHANGED <<net, best_move, move_probs>>
    /\ UNCHANGED <<dataset, indexing, encoding, gui>>

\* print(f"AI plays: {board.san(best_move)}"), on the board after the push
AiAnnounce ==
    /\ epc = "ai_played"
    /\ epc' = IF san_defined(eboard, best_move[1]) THEN "loop" ELSE "raised"
    /\ UNCHANGED <<net, eboard, best_move, move_probs, pushes>>
    /\ UNCHANGED <<dataset, indexing, encoding, gui>>

InitPlay ==
    /\ PipelineIdle
    /\ net \in {Some(n) : n \in Nets}
    /\ eboard = StartBoard
    /\ epc = "loop"
    /\ best_move = None
    /\ move_probs = << >>
    /\ pushes = << >>
    /\ GuiIdle

NextPlay ==
    \/ LoopTest
    \/ PlayerMove
    \/ PlayerNullMove
    \/ PlayerAbort
    \/ AiEvaluate
    \/ AiPrintTop
    \/ AiPush
    \/ AiAnnounce

SpecPlay == InitPlay /\ [][NextPlay]_vars

\* C27: every move play_game pushes is legal on the board it is pushed on,
\* and an AI turn completes: no call of board.san raises.
C27_MovesLegalAndAiTurnCompletes ==
    /\ \A i \in DOMAIN pushes : pushes[i].move \in LegalMoves(pushes[i].board)
    /\ epc # "raised"


----------------------------------------------------------------------------
(* gui.py: ChessGUI *)

\* the fields of the window as one record
Gui ==
    [board |-> gboard, past |-> gpast, move_stack |-> move_stack,
     redo_stack |-> redo_stack, white |-> playing_as_white,
     self_playing |-> is_self_playing, undo_enabled |-> undo_enabled,
     redo_enabled |-> redo_enabled]

\* the fields of the window become those of the record
Becomes(g) ==
    /\ gboard' = g.board
    /\ gpast' = g.past
    /\ move_stack' = g.move_stack
    /\ redo_stack' = g.redo_stack
    /\ playing_as_white' = g.white
    /\ is_self_playing' = g.self_playing
    /\ undo_enabled' = g.undo_enabled
    /\ redo_enabled' = g.redo_enabled

\* list.pop(): the list without its last element
Popped(list) == SubSeq(list, 1, Len(list) - 1)

\* the last element of a list
Top(list) == list[Len(list)]

\* self.board_widget.board.push(move)
board_push(g, m) ==
    [g EXCEPT !.past = Append(g.past, g.board), !.board = push(g.board, m)]

\* self.board_widget.board.pop()
board_pop(g) ==
    [g EXCEPT !.board = Top(g.past), !.past = Popped(g.past)]

\* update_button_states(): the undo and redo buttons
update_button_states(g) ==
    [g EXCEPT !.undo_enabled = Len(g.move_stack) > 0,
              !.redo_enabled = Len(g.redo_stack) > 0]

\* board.push(move) and move_stack.append(move)
stacked(g, m) ==
    [board_push(g, m) EXCEPT !.move_stack = Append(g.move_stack, m)]

\* make_ai_move() from line 669 on: if best_move, it is pushed and stacked
ai_moved(g, best) == IF best # None THEN stacked(g, best[1]) ELSE g

\* make_ai_move()
make_ai_move(n, g) == ai_moved(g, evaluate_position(n, g.board).best_move)

\* new_game(), lines 649-657
cleared(g) ==
    update_button_states(
        [g EXCEPT !.board = StartBoard, !.past = << >>,
                  !.move_stack = << >>, !.redo_stack = << >>])

\* new_game(), lines 659-661: the engine opens if the player has Black
opened(n, g) == IF ~g.white THEN make_ai_move(n, g) ELSE g

\* new_game()
new_game(n, g) == opened(n, cleared(g))

\* switch_sides()
switch_sides(n, g) == new_game(n, [g EXCEPT !.white = ~g.white])

\* on_player_move, lines 742-750: the move is pushed and stacked, the redo
\* stack cleared
player_moved(g, m) == [stacked(g, m) EXCEPT !.redo_stack = << >>]

\* on_player_move, lines 755-764: the engine replies unless the game is over
replied(n, g) ==
    update_button_states(IF ~is_game_over(g.board) THEN make_ai_move(n, g) ELSE g)

\* on_player_move(board_before_move, move_data): the board sent with the
\* signal is the board of the widget
on_player_move(n, g, m) ==
    IF g.board.turn # g.white THEN g ELSE replied(n, player_moved(g, m))

\* undo_move(): the state it leaves and whether it raised; board.pop()
\* raises IndexError on a board without moves, and self.engine of line 793 is
\* an attribute ChessGUI does not have
undo_move(g) ==
    IF Len(g.move_stack) >= 2
    THEN LET ai_move == Top(g.move_stack)
             first == [g EXCEPT !.move_stack = Popped(g.move_stack),
                                !.redo_stack = Append(g.redo_stack, ai_move)]
             player_move == Top(first.move_stack)
             second == [board_pop(first) EXCEPT
                            !.move_stack = Popped(first.move_stack),
                            !.redo_stack = Append(first.redo_stack, player_move)]
         IN IF first.past = << >>
            THEN [state |-> first, raised |-> TRUE]
            ELSE IF second.past = << >>
            THEN [state |-> second, raised |-> TRUE]
            ELSE [state |-> update_button_states(board_pop(second)), raised |-> TRUE]
    ELSE [state |-> g, raised |-> FALSE]

\* redo_move(): the state it leaves and whether it raised; board.san raises on
\* a move from an empty square, and self.engine of line 820 does not exist
redo_move(g) ==
    IF Len(g.redo_stack) >= 2
    THEN LET player_move == Top(g.redo_stack)
             first == [g EXCEPT !.redo_stack = Popped(g.redo_stack),
                                !.move_stack = Append(g.move_stack, player_move)]
             pushed == board_push(first, player_move)
             ai_move == Top(pushed.redo_stack)
             second == [pushed EXCEPT !.redo_stack = Popped(pushed.redo_stack),
                                      !.move_stack = Append(pushed.move_stack, ai_move)]
         IN IF ~san_defined(first.board, player_move)
            THEN [state |-> first, raised |-> TRUE]
            ELSE IF ~san_defined(second.board, ai_move)
            THEN [state |-> second, raised |-> TRUE]
            ELSE [state |-> update_button_states(board_push(second, ai_move)),
                  raised |-> TRUE]
    ELSE [state |-> g, raised |-> FALSE]

\* stop_self_play()
stop_self_play(g) == update_button_states([g EXCEPT !.self_playing = FALSE])

\* make_self_play_move, lines 888-892: self-play stops if the game is over
self_play_checked(g) == IF is_game_over(g.board) THEN stop_self_play(g) ELSE g

\* make_self_play_move, lines 869-892
self_moved(g, best) ==
    IF best # None THEN self_play_checked(stacked(g, best[1])) ELSE g

\* make_self_play_move()
make_self_play_move(n, g) ==
    IF ~is_game_over(g.board)
    THEN self_moved(g, evaluate_position(n, g.board).best_move)
    ELSE stop_self_play(g)

\* toggle_self_play, lines 844-846: the first move is made at once
self_play_begun(n, g) ==
    IF ~is_game_over(g.board) THEN make_self_play_move(n, g) ELSE g

\* toggle_self_play()
toggle_self_play(n, g) ==
    IF ~g.self_playing
    THEN self_play_begun(n, [g EXCEPT !.self_playing = TRUE,
                                      !.undo_enabled = FALSE, !.redo_enabled = FALSE])
    ELSE stop_self_play(g)

\* the pairs of squares the player clicks one after the other: e2 e4, g1 f3,
\* d2 d4, e7 e5, g8 f6, d7 d5
Clicks == {<<12, 28>>, <<6, 21>>, <<11, 27>>, <<52, 36>>, <<62, 45>>, <<51, 35>>}

\* the legal moves of the board between two squares
MovesBetween(legal, pair) ==
    { m \in legal : m.from_square = pair[1] /\ m.to_square = pair[2] }

\* square_clicked: the move the two clicks make, if any: of the legal moves
\* with these two squares the first of the enumeration
FirstOf(moves) == { m \in moves : \A x \in moves : MoveKey(m) <= MoveKey(x) }

ClickMoves(legal) == UNION { FirstOf(MovesBetween(legal, pair)) : pair \in Clicks }

\* an exception that leaves a slot goes to sys.excepthook: the hook of PyQt
\* ends the process, a hook of the program that embeds the window reports the
\* exception and the event loop goes on
AfterSlot(raised) == IF raised THEN {"ready", "aborted"} ELSE {"ready"}

\* a slot other than undo_move and redo_move has run to its end
Ran(slot, g) ==
    /\ Len(g.past) <= MaxGuiPly
    /\ Len(g.move_stack) <= MaxGuiPly
    /\ Len(g.redo_stack) <= MaxRedo
    /\ Becomes(g)
    /\ handled' = slot
    /\ graised' = FALSE
    /\ before_undo' = None
    /\ gpc' = "ready"
    /\ UNCHANGED <<dataset, indexing, encoding, engine>>

\* undo_move or redo_move has run and left the state of the result
RanTo(slot, result) ==
    /\ Len(result.state.move_stack) <= MaxGuiPly
    /\ Len(result.state.redo_stack) <= MaxRedo
    /\ Becomes(result.state)
    /\ handled' = slot
    /\ graised' = result.raised
    /\ gpc' \in AfterSlot(result.raised)
    /\ UNCHANGED <<dataset, indexing, encoding, engine>>

\* two clicks on the board make a move: move_made is emitted
PlayerMoves ==
    /\ gpc = "ready"
    /\ \E m \in ClickMoves(LegalMoves(gboard)) :
        Ran("on_player_move", on_player_move(net[1], Gui, m))

\* the New Game button
NewGameClicked ==
    /\ gpc = "ready"
    /\ Ran("new_game", new_game(net[1], Gui))

\* the Switch button, disabled while self-play runs
SwitchSidesClicked ==
    /\ gpc = "ready"
    /\ ~is_self_playing
    /\ Ran("switch_sides", switch_sides(net[1], Gui))

\* the Self-Play button
SelfPlayClicked ==
    /\ gpc = "ready"
    /\ Ran("toggle_self_play", toggle_self_play(net[1], Gui))

\* the self-play timer fires
SelfPlayTimeout ==
    /\ gpc = "ready"
    /\ is_self_playing
    /\ Ran("make_self_play_move", make_self_play_move(net[1], Gui))

\* the Undo button
UndoClicked ==
    /\ gpc = "ready"
    /\ undo_enabled
    /\ RanTo("undo_move", undo_move(Gui))
    /\ before_undo' = IF Len(move_stack) >= 2
                      THEN Some([board |-> gboard, move_stack |-> move_stack,
                                 redo_stack |-> redo_stack])
                      ELSE None

\* the Redo button
RedoClicked ==
    /\ gpc = "ready"
    /\ redo_enabled
    /\ RanTo("redo_move", redo_move(Gui))
    /\ before_undo' = IF handled = "undo_move" THEN before_undo ELSE None

\* ChessGUI(engine_path): both engines load the same weights
\* the weights the window is started with
GuiNets == { n \in Nets : n.slope = 1 /\ n.shift = 0 }

InitGui ==
    /\ PipelineIdle
    /\ net \in {Some(n) : n \in GuiNets}
    /\ eboard = StartBoard
    /\ epc = "idle"
    /\ best_move = None
    /\ move_probs = << >>
    /\ pushes = << >>
    /\ GuiConstructed
    /\ gpc = "ready"

NextGui ==
    \/ PlayerMoves
    \/ NewGameClicked
    \/ SwitchSidesClicked
    \/ SelfPlayClicked
    \/ SelfPlayTimeout
    \/ UndoClicked
    \/ RedoClicked

SpecGui == InitGui /\ [][NextGui]_vars

\* C28: undo_move with two moves or more on move_stack and redo_move with two
\* moves or more on redo_stack run to their end without raising, and a redo
\* that follows an undo at once leaves the board, move_stack and redo_stack as
\* they were before the undo.
C28_UndoRedoRunAndRestore ==
    /\ handled \in {"undo_move", "redo_move"} => ~graised
    /\ (handled = "redo_move" /\ before_undo # None) =>
            /\ gboard = before_undo[1].board
            /\ move_stack = before_undo[1].move_stack
            /\ redo_stack = before_undo[1].redo_stack

\* the moves of the stack, taken from its top, can be played one after the
\* other from the board
RECURSIVE LegalContinuation(_, _)
LegalContinuation(board, stack) ==
    \/ stack = << >>
    \/ /\ Top(stack) \in LegalMoves(board)
       /\ LegalContinuation(push(board, Top(stack)), Popped(stack))

C30_AfterUndoPlayerIsToMove ==
    (handled = "undo_move" /\ before_undo # None /\ ~is_self_playing)
        => gboard.turn = playing_as_white

====
